---- MODULE Spec2Model ----
(***************************************************************************)
(* Model of the B2C callback gateway of gidyon/mpesa-b2c:                  *)
(* b2cGateway.fromSaf (internal/b2c/v1/worker.go, gateway part) over the   *)
(* b2c_transactions table (internal/b2c/v1/model.go) and the Redis         *)
(* correlation cache.  Each HTTP request is served by its own goroutine;   *)
(* the steps of fromSaf that touch a shared service (Redis GET, SQL        *)
(* SELECT, SQL UPDATE / INSERT, the publish RPC, the response write) are   *)
(* separate atomic actions, so that handlers interleave between them.      *)
(* The access-token worker of the same package (updateAccessTokenWorker    *)
(* and updateAccessToken, worker.go lines 16-85) is modelled beside it on   *)
(* its own variables, with time passing in fixed quanta.                   *)
(***************************************************************************)
EXTENDS Integers, Sequences, FiniteSets, TLC

\* ---------------------------------------------------------------- bounds
\* Number of request goroutines that can be inside fromSaf at once.
NumHandlers == 2
\* Number of callbacks accepted past validation in one behaviour.
MaxCallbacks == 2
\* Number of failures of the external services (cache, store, publish call,
\* response write) in one behaviour.
MaxFaults == 1
\* Width in bits of the duration type.  time.Duration is a 64-bit two's
\* complement count of nanoseconds; the model counts tens of seconds in
\* DurationBits bits, so that repeated doubling wraps around in the same way
\* (into a negative value, then to zero) after a number of steps that can
\* be explored.
DurationBits == 6
\* Number of consecutive failed refreshes that are counted one by one.
BackoffSteps == 3

Handlers == 1..NumHandlers

\* HTTP status codes used by fromSaf.
StatusOK == 200
StatusBadRequest == 400
StatusInternalServerError == 500

\* ------------------------------------------------------- pure conversions
Digit(d) ==
  CASE d = 0 -> "0" [] d = 1 -> "1" [] d = 2 -> "2" [] d = 3 -> "3"
    [] d = 4 -> "4" [] d = 5 -> "5" [] d = 6 -> "6" [] d = 7 -> "7"
    [] d = 8 -> "8" [] OTHER -> "9"

RECURSIVE SprintNat(_)
SprintNat(n) == IF n < 10 THEN Digit(n) ELSE SprintNat(n \div 10) \o Digit(n % 10)

\* fmt.Sprint of an integer: its decimal text.
Sprint(n) == IF n < 0 THEN "-" \o SprintNat(0 - n) ELSE SprintNat(n)

\* float32(x) of a non-negative whole float64 below 2^26: exact up to 2^24,
\* above that rounded to the nearest representable value, ties to even.
Float32(x) ==
  LET step == IF x < 16777216 THEN 1 ELSE IF x < 33554432 THEN 2 ELSE 4
      lo == (x \div step) * step
      r == x - lo
  IN  IF 2 * r < step THEN lo
      ELSE IF 2 * r > step THEN lo + step
      ELSE IF (lo \div step) % 2 = 0 THEN lo ELSE lo + step

\* strings.ToLower on the content-type header values the model delivers.
ToLower(s) ==
  CASE s = "Application/JSON;charset=UTF-8" -> "application/json;charset=utf-8"
    [] s = "TEXT/XML" -> "text/xml"
    [] OTHER -> s

\* -------------------------------------------------------- callback inputs
Convs == {"c1", "c2"}

\* payload.Transaction as decoded from the callback body: the Result fields
\* and the result parameters behind the named accessors.
Payload(conv, orig, code, desc, amount, receipt, registered, working, utility, charges, completed, name, msisdn) ==
  [ConversationID |-> conv, OriginatorConversationID |-> orig,
   ResultCode |-> code, ResultDesc |-> desc,
   TransactionAmount |-> amount, TransactionReceipt |-> receipt,
   B2CRecipientIsRegisteredCustomer |-> registered,
   B2CWorkingAccountAvailableFunds |-> working,
   B2CUtilityAccountAvailableFunds |-> utility,
   B2CChargesPaidAccountAvailableFunds |-> charges,
   TransactionCompletedDateTime |-> completed,
   ReceiverPartyPublicName |-> name, MSISDN |-> msisdn]

\* A successful result for conversation c: it carries a receipt, the amount,
\* the balances and the completion time.
SuccessPayload(c) ==
  Payload(c, "o" \o c, 0, "The service request is processed successfully.",
          100, "R" \o c, TRUE, 16777217, 5000, 15, 7,
          "254700000001 - Jane Doe", "254700000001")

\* A failed result for conversation c: no result parameters at all, hence
\* no receipt.
FailurePayload(c) ==
  Payload(c, "o" \o c, IF c = "c1" THEN 1 ELSE 2001,
          "The initiator information is invalid.",
          0, "", FALSE, 0, 0, 0, 0, "", "")

Request(method, ctype, decodes, payload) ==
  [Method |-> method, ContentType |-> ctype, Decodes |-> decodes, b2cPayload |-> payload]

ValidRequests ==
  {Request("POST", "application/json", TRUE, p) :
     p \in {SuccessPayload("c1")} \cup {FailurePayload(c) : c \in Convs}}
  \cup {Request("POST", "Application/JSON;charset=UTF-8", TRUE, SuccessPayload("c1"))}

\* Requests fromSaf has to turn away.
BadRequests ==
  {Request("GET", "application/json", TRUE, SuccessPayload("c1")),
   Request("POST", "TEXT/XML", TRUE, SuccessPayload("c1")),
   Request("POST", "", TRUE, SuccessPayload("c1")),
   Request("POST", "application/json", FALSE, SuccessPayload("c1")),
   Request("POST", "application/json", TRUE,
           [SuccessPayload("c1") EXCEPT !.ConversationID = ""]),
   Request("POST", "application/json", TRUE,
           [SuccessPayload("c1") EXCEPT !.OriginatorConversationID = ""]),
   Request("POST", "application/json", TRUE,
           [FailurePayload("c1") EXCEPT !.ResultDesc = ""])}

Requests == ValidRequests \cup BadRequests

\* The zero value of payload.Transaction (b2cPayload = &payload.Transaction{}).
NoPayload == Payload("", "", 0, "", 0, "", FALSE, 0, 0, 0, 0, "", "")

\* --------------------------------------------------- correlation requests
\* message PublishInfo behind the pointer TransferFundsRequest.publish_message
\* (the payload map is only passed through and is left out).
PublishInfo(onlyOnSuccess, channel) ==
  [IsNil |-> FALSE, OnlyOnSuccess |-> onlyOnSuccess, ChannelName |-> channel]

\* The nil *PublishInfo.
NilPublishInfo == [IsNil |-> TRUE, OnlyOnSuccess |-> FALSE, ChannelName |-> ""]

\* The zero value of b2c_v1.TransferFundsRequest (remarks and occassion are
\* never read by fromSaf and are left out).
ZeroTransferFundsRequest ==
  [InitiatorId |-> "", InitiatorCustomerReference |-> "",
   InitiatorCustomerNames |-> "", Msisdn |-> "", Amount |-> 0, ShortCode |-> "",
   CommandId |-> 0, Publish |-> FALSE, PublishMessage |-> NilPublishInfo]

TransferFundsRequest(initiator, ref, names, msisdn, amount, shortCode, command, publish, publishMessage) ==
  [InitiatorId |-> initiator, InitiatorCustomerReference |-> ref,
   InitiatorCustomerNames |-> names, Msisdn |-> msisdn, Amount |-> amount,
   ShortCode |-> shortCode, CommandId |-> command, Publish |-> publish,
   PublishMessage |-> publishMessage]

\* enum CommandId: CommandId.String()
CommandIdName(n) ==
  CASE n = 1 -> "SALARY_PAYMENT" [] n = 2 -> "BUSINESS_PAYMENT"
    [] n = 3 -> "PROMOTION_PAYMENT" [] OTHER -> "COMMANDID_UNSPECIFIED"

\* CommandId_value[name]: a missing key reads as 0.
CommandIdValue(s) ==
  CASE s = "SALARY_PAYMENT" -> 1 [] s = "BUSINESS_PAYMENT" -> 2
    [] s = "PROMOTION_PAYMENT" -> 3 [] OTHER -> 0

\* enum B2CStatus: B2CStatus_value[name], a missing key reads as 0.
B2CStatusValue(s) ==
  CASE s = "B2C_REQUEST_FAILED" -> 1 [] s = "B2C_REQUEST_SUBMITED" -> 2
    [] s = "B2C_SUCCESS" -> 3 [] s = "B2C_FAILED" -> 4 [] OTHER -> 0

\* The transfer requests that were submitted and cached, one per publish
\* policy: no publish; publish always; publish only on success.
NoPublishRequest ==
  TransferFundsRequest("init-1", "ref-1", "Jane Doe", "254700000002", 250,
                       "600100", 2, FALSE, NilPublishInfo)

PublishAlwaysRequest ==
  TransferFundsRequest("init-2", "ref-2", "John Roe", "254700000001", 250,
                       "600200", 1, TRUE, PublishInfo(FALSE, "payouts"))

PublishOnSuccessRequest ==
  TransferFundsRequest("init-3", "ref-3", "Ann Poe", "254700000001", 250,
                       "600300", 3, TRUE, PublishInfo(TRUE, "payouts"))

\* proto3 wire form: the sequence of <<field number, value>> of the fields
\* that differ from their default; a nested message is a nested sequence.
MarshalPublishInfo(m) ==
  (IF m.OnlyOnSuccess THEN << <<1, TRUE>> >> ELSE << >>)
  \o (IF m.ChannelName # "" THEN << <<2, m.ChannelName>> >> ELSE << >>)

Marshal(m) ==
  SelectSeq(<< <<1, m.InitiatorId>>, <<2, m.InitiatorCustomerReference>>,
               <<3, m.InitiatorCustomerNames>>, <<4, m.Msisdn>> >>,
            LAMBDA f : f[2] # "")
  \o (IF m.Amount # 0 THEN << <<5, m.Amount>> >> ELSE << >>)
  \o (IF m.ShortCode # "" THEN << <<6, m.ShortCode>> >> ELSE << >>)
  \o (IF m.CommandId # 0 THEN << <<9, m.CommandId>> >> ELSE << >>)
  \o (IF m.Publish THEN << <<10, TRUE>> >> ELSE << >>)
  \o (IF ~m.PublishMessage.IsNil
        THEN << <<11, MarshalPublishInfo(m.PublishMessage)>> >> ELSE << >>)

RECURSIVE UnmarshalPublishInfo(_, _)
UnmarshalPublishInfo(bytes, m) ==
  IF bytes = << >> THEN m
  ELSE LET f == Head(bytes)
       IN  UnmarshalPublishInfo(Tail(bytes),
             CASE f[1] = 1 -> [m EXCEPT !.OnlyOnSuccess = f[2]]
               [] f[1] = 2 -> [m EXCEPT !.ChannelName = f[2]]
               [] OTHER -> m)

\* proto.Unmarshal([]byte(res), tranferReq) into the zero message m.
RECURSIVE Unmarshal(_, _)
Unmarshal(bytes, m) ==
  IF bytes = << >> THEN m
  ELSE LET f == Head(bytes)
       IN  Unmarshal(Tail(bytes),
             CASE f[1] = 1 -> [m EXCEPT !.InitiatorId = f[2]]
               [] f[1] = 2 -> [m EXCEPT !.InitiatorCustomerReference = f[2]]
               [] f[1] = 3 -> [m EXCEPT !.InitiatorCustomerNames = f[2]]
               [] f[1] = 4 -> [m EXCEPT !.Msisdn = f[2]]
               [] f[1] = 5 -> [m EXCEPT !.Amount = f[2]]
               [] f[1] = 6 -> [m EXCEPT !.ShortCode = f[2]]
               [] f[1] = 9 -> [m EXCEPT !.CommandId = f[2]]
               [] f[1] = 10 -> [m EXCEPT !.Publish = f[2]]
               [] f[1] = 11 ->
                    [m EXCEPT !.PublishMessage =
                       UnmarshalPublishInfo(f[2], PublishInfo(FALSE, ""))]
               [] OTHER -> m)

\* GetMpesaRequestKey: the namespaced cache key of a conversation.
GetMpesaRequestKey(conv) == "mpesa:b2c:request:" \o conv

\* tranferReq.GetPublishMessage().GetOnlyOnSuccess(): nil-safe getters.
GetOnlyOnSuccess(t) ==
  IF t.PublishMessage.IsNil THEN FALSE ELSE t.PublishMessage.OnlyOnSuccess

\* ----------------------------------------------------------- Payment rows
NullString(valid, str) == [Valid |-> valid, String |-> str]
NullTime(valid, time) == [Valid |-> valid, Time |-> time]

\* The zero value of the Payment struct (db = &b2c_app_v1.Payment{}).
ZeroPayment ==
  [ID |-> 0, InitiatorID |-> "", InitiatorCustomerReference |-> "",
   InitiatorCustomerNames |-> "", Msisdn |-> "", OrgShortCode |-> "",
   CommandId |-> "", TransactionAmount |-> 0, ConversationID |-> "",
   OriginatorConversationID |-> "", ResponseDescription |-> "",
   ResponseCode |-> "", ResultCode |-> "", ResultDescription |-> "",
   WorkingAccountFunds |-> 0, UtilityAccountFunds |-> 0, MpesaCharges |-> 0,
   SystemCharges |-> 0, RecipientRegistered |-> FALSE,
   MpesaReceiptId |-> NullString(FALSE, ""), ReceiverPublicName |-> "",
   B2CStatus |-> "", Source |-> "", Tag |-> "", Succeeded |-> "",
   Processed |-> "", TransactionTime |-> NullTime(FALSE, 0),
   UpdatedAt |-> 0, CreatedAt |-> 0]

\* ------------------------------------------------- fromSaf, the pure parts
RecognizedContentTypes ==
  {"application/json", "application/json;charset=utf-8", "application/json;charset=utf8"}

\* Validate without the check of the result description.
ValidateWithoutDescription(r) ==
  IF r.Method # "POST" THEN StatusBadRequest
  ELSE IF ToLower(r.ContentType) \notin RecognizedContentTypes THEN StatusBadRequest
  ELSE IF ~r.Decodes THEN StatusBadRequest
  ELSE IF r.b2cPayload.ConversationID = "" THEN StatusBadRequest
  ELSE IF r.b2cPayload.OriginatorConversationID = "" THEN StatusBadRequest
  ELSE 0

\* The checks of fromSaf before it touches Redis or SQL, in the order of the
\* code: the status it returns, or 0 when the request passes them all.
Validate(r) ==
  IF r.Method # "POST" THEN StatusBadRequest
  ELSE IF ToLower(r.ContentType) \notin RecognizedContentTypes THEN StatusBadRequest
  ELSE IF ~r.Decodes THEN StatusBadRequest
  ELSE IF r.b2cPayload.ConversationID = "" THEN StatusBadRequest
  ELSE IF r.b2cPayload.OriginatorConversationID = "" THEN StatusBadRequest
  ELSE IF r.b2cPayload.ResultDesc = "" THEN StatusBadRequest
  ELSE 0

\* A request the callback contract turns away: not a POST, not a JSON content
\* type, an undecodable body, or an empty conversation identifier, originator
\* conversation identifier or result description.  Recorded per request to
\* state what fromSaf does with such requests.
Malformed(req) ==
  \/ req.Method # "POST"
  \/ ToLower(req.ContentType) \notin RecognizedContentTypes
  \/ ~req.Decodes
  \/ req.b2cPayload.ConversationID = ""
  \/ req.b2cPayload.OriginatorConversationID = ""
  \/ req.b2cPayload.ResultDesc = ""

\* Outcome without the test of the result code.
OutcomeAlwaysSucceeded(p) == [succeeded |-> "YES", status |-> "B2C_SUCCESS"]

\* Outcome that leaves succeeded undetermined for a nonzero result code.
OutcomeUnknownOnFailure(p) ==
  IF p.ResultCode # 0
    THEN [succeeded |-> "UNKNOWN", status |-> "B2C_FAILED"]
    ELSE [succeeded |-> "YES", status |-> "B2C_SUCCESS"]

\* succeeded and status: "YES" / B2C_SUCCESS unless the result code is nonzero.
Outcome(p) ==
  IF p.ResultCode # 0
    THEN [succeeded |-> "NO", status |-> "B2C_FAILED"]
    ELSE [succeeded |-> "YES", status |-> "B2C_SUCCESS"]

\* The columns of the Updates(map[string]interface{}{...}) call.
UpdateColumns(p) ==
  [result_code |-> Sprint(p.ResultCode),
   result_description |-> p.ResultDesc,
   working_account_funds |-> Float32(p.B2CWorkingAccountAvailableFunds),
   utility_account_funds |-> Float32(p.B2CUtilityAccountAvailableFunds),
   mpesa_charges |-> Float32(p.B2CChargesPaidAccountAvailableFunds),
   recipient_registered |-> p.B2CRecipientIsRegisteredCustomer,
   mpesa_receipt_id |-> p.TransactionReceipt,
   transaction_time |-> NullTime(TRUE, p.TransactionCompletedDateTime),
   receiver_public_name |-> p.ReceiverPartyPublicName,
   b2c_status |-> Outcome(p).status,
   succeeded |-> Outcome(p).succeeded]

\* AssignColumns as a full save of the struct would do it: the creation time
\* is written as well.
AssignColumnsAndCreatedAt(row, cols, time) ==
  [row EXCEPT
     !.ResultCode = cols.result_code,
     !.ResultDescription = cols.result_description,
     !.WorkingAccountFunds = cols.working_account_funds,
     !.UtilityAccountFunds = cols.utility_account_funds,
     !.MpesaCharges = cols.mpesa_charges,
     !.RecipientRegistered = cols.recipient_registered,
     !.MpesaReceiptId = NullString(TRUE, cols.mpesa_receipt_id),
     !.TransactionTime = cols.transaction_time,
     !.ReceiverPublicName = cols.receiver_public_name,
     !.B2CStatus = cols.b2c_status,
     !.Succeeded = cols.succeeded,
     !.UpdatedAt = time,
     !.CreatedAt = time]

\* An Updates call that assigns nothing, neither to the row nor to the
\* struct.
AssignNothing(row, cols, time) == row

\* An Updates call that leaves b2c_status and succeeded as they were.
AssignColumnsKeepingStatus(row, cols, time) ==
  [row EXCEPT
     !.ResultCode = cols.result_code,
     !.ResultDescription = cols.result_description,
     !.WorkingAccountFunds = cols.working_account_funds,
     !.UtilityAccountFunds = cols.utility_account_funds,
     !.MpesaCharges = cols.mpesa_charges,
     !.RecipientRegistered = cols.recipient_registered,
     !.MpesaReceiptId = NullString(TRUE, cols.mpesa_receipt_id),
     !.TransactionTime = cols.transaction_time,
     !.ReceiverPublicName = cols.receiver_public_name,
     !.UpdatedAt = time]

\* A row (or the in-memory struct) with the columns of an Updates call set:
\* a string written to mpesa_receipt_id is a non-NULL value, also when it is
\* empty; updated_at is set by autoUpdateTime.
AssignColumns(row, cols, time) ==
  [row EXCEPT
     !.ResultCode = cols.result_code,
     !.ResultDescription = cols.result_description,
     !.WorkingAccountFunds = cols.working_account_funds,
     !.UtilityAccountFunds = cols.utility_account_funds,
     !.MpesaCharges = cols.mpesa_charges,
     !.RecipientRegistered = cols.recipient_registered,
     !.MpesaReceiptId = NullString(TRUE, cols.mpesa_receipt_id),
     !.TransactionTime = cols.transaction_time,
     !.ReceiverPublicName = cols.receiver_public_name,
     !.B2CStatus = cols.b2c_status,
     !.Succeeded = cols.succeeded,
     !.UpdatedAt = time]

\* A Payment literal of the create branch that is already marked processed.
NewPaymentProcessed(p, t) ==
  [ID |-> 0,
   InitiatorID |-> t.InitiatorId,
   InitiatorCustomerReference |-> t.InitiatorCustomerReference,
   InitiatorCustomerNames |-> t.InitiatorCustomerNames,
   Msisdn |-> p.MSISDN,
   OrgShortCode |-> t.ShortCode,
   CommandId |-> CommandIdName(t.CommandId),
   TransactionAmount |-> Float32(p.TransactionAmount),
   ConversationID |-> p.ConversationID,
   OriginatorConversationID |-> p.OriginatorConversationID,
   ResponseDescription |-> "",
   ResponseCode |-> "",
   ResultCode |-> Sprint(p.ResultCode),
   ResultDescription |-> p.ResultDesc,
   WorkingAccountFunds |-> Float32(p.B2CWorkingAccountAvailableFunds),
   UtilityAccountFunds |-> Float32(p.B2CUtilityAccountAvailableFunds),
   MpesaCharges |-> Float32(p.B2CChargesPaidAccountAvailableFunds),
   SystemCharges |-> 0,
   RecipientRegistered |-> p.B2CRecipientIsRegisteredCustomer,
   MpesaReceiptId |-> NullString(p.TransactionReceipt # "", p.TransactionReceipt),
   ReceiverPublicName |-> p.ReceiverPartyPublicName,
   B2CStatus |-> Outcome(p).status,
   Source |-> "",
   Tag |-> "",
   Succeeded |-> Outcome(p).succeeded,
   Processed |-> "YES",
   TransactionTime |-> NullTime(TRUE, p.TransactionCompletedDateTime),
   UpdatedAt |-> 0,
   CreatedAt |-> 0]

\* db = &b2c_app_v1.Payment{...} of the create branch.
NewPayment(p, t) ==
  [ID |-> 0,
   InitiatorID |-> t.InitiatorId,
   InitiatorCustomerReference |-> t.InitiatorCustomerReference,
   InitiatorCustomerNames |-> t.InitiatorCustomerNames,
   Msisdn |-> p.MSISDN,
   OrgShortCode |-> t.ShortCode,
   CommandId |-> CommandIdName(t.CommandId),
   TransactionAmount |-> Float32(p.TransactionAmount),
   ConversationID |-> p.ConversationID,
   OriginatorConversationID |-> p.OriginatorConversationID,
   ResponseDescription |-> "",
   ResponseCode |-> "",
   ResultCode |-> Sprint(p.ResultCode),
   ResultDescription |-> p.ResultDesc,
   WorkingAccountFunds |-> Float32(p.B2CWorkingAccountAvailableFunds),
   UtilityAccountFunds |-> Float32(p.B2CUtilityAccountAvailableFunds),
   MpesaCharges |-> Float32(p.B2CChargesPaidAccountAvailableFunds),
   SystemCharges |-> 0,
   RecipientRegistered |-> p.B2CRecipientIsRegisteredCustomer,
   MpesaReceiptId |-> NullString(p.TransactionReceipt # "", p.TransactionReceipt),
   ReceiverPublicName |-> p.ReceiverPartyPublicName,
   B2CStatus |-> Outcome(p).status,
   Source |-> "",
   Tag |-> "",
   Succeeded |-> Outcome(p).succeeded,
   Processed |-> "NO",
   TransactionTime |-> NullTime(TRUE, p.TransactionCompletedDateTime),
   UpdatedAt |-> 0,
   CreatedAt |-> 0]

\* PaymentProto(db): the public shape of a row (times stay in model time).
PaymentProto(row) ==
  [TransactionId |-> row.ID,
   InitiatorId |-> row.InitiatorID,
   InitiatorCustomerReference |-> row.InitiatorCustomerReference,
   InitiatorCustomerNames |-> row.InitiatorCustomerNames,
   OrgShortCode |-> row.OrgShortCode,
   CommandId |-> CommandIdValue(row.CommandId),
   Msisdn |-> row.Msisdn,
   Amount |-> row.TransactionAmount,
   ConversationId |-> row.ConversationID,
   OriginalConversationId |-> row.OriginatorConversationID,
   B2CResponseDescription |-> row.ResponseDescription,
   B2CResponseCode |-> row.ResponseCode,
   B2CResultDescription |-> row.ResultDescription,
   B2CResultCode |-> row.ResultCode,
   ReceiverPartyPublicName |-> row.ReceiverPublicName,
   MpesaReceiptId |-> row.MpesaReceiptId.String,
   WorkingAccountFunds |-> row.WorkingAccountFunds,
   UtilityAccountFunds |-> row.UtilityAccountFunds,
   MpesaCharges |-> row.MpesaCharges,
   SystemCharges |-> row.SystemCharges,
   RecipientRegistered |-> row.RecipientRegistered,
   B2CStatus |-> B2CStatusValue(row.B2CStatus),
   Source |-> row.Source,
   Tag |-> row.Tag,
   Succeeded |-> (row.Succeeded = "YES"),
   Processed |-> (row.Processed = "YES"),
   TransactionTimestamp |-> row.TransactionTime.Time,
   CreateDate |-> row.CreatedAt]

\* OnStoreError without the return: the handler goes on to the publish block.
OnStoreErrorContinue == [pc |-> "respond", code |-> 0]

\* OnStoreError with the status kept but the return deferred to the end of
\* the handler.
OnStoreErrorRespond == [pc |-> "respond", code |-> StatusInternalServerError]

\* What fromSaf does when First, Updates or Create returns an error (other
\* than record-not-found): it returns 500 at once.
OnStoreError == [pc |-> "done", code |-> StatusInternalServerError]

\* ResponseStatus with the error of the publish call returned to the caller.
ResponseStatusFromPublish(published, written) ==
  IF written /\ published THEN StatusOK ELSE StatusInternalServerError

\* The status fromSaf returns after the publish block: only the error of
\* w.Write decides it, the error of the publish call was logged and dropped.
ResponseStatus(published, written) ==
  IF written THEN StatusOK ELSE StatusInternalServerError

\* ShouldPublish without the onlyOnSuccess test.
ShouldPublishIgnoringOutcome(t, pb) == t.Publish

\* The Notification Gate: whether fromSaf calls publish() for the request
\* t and the translated record pb.
ShouldPublish(t, pb) ==
  IF t.Publish
    THEN IF GetOnlyOnSuccess(t) THEN pb.Succeeded ELSE TRUE
    ELSE FALSE

\* The PublishB2CPaymentRequest.PublishMessage built by publish().
PublishMessage(t, pb, p) ==
  [InitiatorId |-> t.InitiatorId,
   TransactionId |-> pb.TransactionId,
   MpesaReceiptId |-> pb.MpesaReceiptId,
   Msisdn |-> p.MSISDN,
   PublishInfo |-> t.PublishMessage,
   Payment |-> pb]

\* ------------------------------------------------------------------ state
VARIABLES
  SQLDB,       \* the b2c_transactions table: the sequence of rows, row i has ID i
  RedisDB,     \* the correlation cache: key -> [present, bytes]
  now,         \* the database clock behind autoCreateTime / autoUpdateTime
  delivered,   \* callbacks accepted past validation so far
  faults,      \* failures of the external services so far
  pc,          \* where each handler goroutine stands in fromSaf
  b2cPayload,  \* fromSaf's b2cPayload, the decoded callback
  tranferReq,  \* fromSaf's tranferReq
  db,          \* fromSaf's db, the in-memory Payment
  code,        \* the status fromSaf returned (0 while it runs)
  log          \* what each handler has done so far for its current request

gatewayVars == <<SQLDB, RedisDB, now, delivered, faults, pc, b2cPayload, tranferReq, db, code, log>>

VARIABLES
  accessToken, \* B2COptions.accessToken: a string header [ptr, len]
  dur,         \* updateAccessTokenWorker's dur, the nominal refresh interval
  sleep,       \* updateAccessTokenWorker's sleep, the next backoff delay
  ticker,      \* its ticker: time to the next tick and the channel buffer C
  ctx,         \* its ctx: "live" or "done"
  wpc,         \* where the worker goroutine stands
  first,       \* whether it is still in the call of line 37
  asleep,      \* time left in time.Sleep
  pending,     \* the string being assigned to accessToken at line 82
  hung,        \* whether the provider will never answer the request in flight
  observed,    \* what the last reader of accessToken saw
  failures,    \* consecutive failed attempts so far (counted to BackoffSteps)
  delay,       \* the duration handed to time.Sleep after the last failure
  waited,      \* time passed since the last attempt ended
  err          \* its err, what updateAccessToken returned last: "nil" or "error"

workerVars == <<accessToken, dur, sleep, ticker, ctx, wpc, first, asleep, pending, hung,
                observed, failures, delay, waited, err>>

vars == <<gatewayVars, workerVars>>

Keys == {GetMpesaRequestKey(c) : c \in Convs}

Absent == [present |-> FALSE, bytes |-> << >>]
Cached(t) == [present |-> TRUE, bytes |-> Marshal(t)]

\* The cache holding entry e1 for conversation c1 and e2 for c2.
Cache(e1, e2) == [k \in Keys |-> IF k = GetMpesaRequestKey("c1") THEN e1 ELSE e2]

ZeroMessage == PublishMessage(ZeroTransferFundsRequest, PaymentProto(ZeroPayment), NoPayload)

ZeroLog ==
  [malformed |-> FALSE, cache |-> "", reads |-> 0, writes |-> 0, path |-> "", storeErr |-> FALSE,
   duplicate |-> FALSE, publishes |-> 0, publishErr |-> FALSE,
   message |-> ZeroMessage, response |-> ""]

InitGateway ==
  /\ SQLDB = << >>
  /\ RedisDB \in {Cache(Cached(PublishOnSuccessRequest), Absent),
                   Cache(Cached(PublishAlwaysRequest), Cached(NoPublishRequest))}
  /\ now = 1
  /\ delivered = 0
  /\ faults = 0
  /\ pc = [h \in Handlers |-> "idle"]
  /\ b2cPayload = [h \in Handlers |-> NoPayload]
  /\ tranferReq = [h \in Handlers |-> ZeroTransferFundsRequest]
  /\ db = [h \in Handlers |-> ZeroPayment]
  /\ code = [h \in Handlers |-> 0]
  /\ log = [h \in Handlers |-> ZeroLog]

\* ------------------------------------------------- the access-token worker
\* time.Second * 10, the unit of the model's durations.
TenSeconds == 1
MinDuration == 0 - 2^(DurationBits - 1)
MaxDuration == 2^(DurationBits - 1) - 1
\* A duration after arithmetic: wrapped into the type's range.
Duration(x) == ((x - MinDuration) % 2^DurationBits) + MinDuration

\* Time passes in steps of this length; every timer of the model is a
\* multiple of it.
Quantum == TenSeconds
\* The nominal refresh intervals the worker is started with: twice and three
\* times the first backoff delay.
Durs == {2 * TenSeconds, 3 * TenSeconds}

\* A Go string: the pointer word (here the text it points to) and the
\* length word.
String(text) == [ptr |-> text, len |-> Len(text)]
\* Whether a string header read from memory is a whole string.
Whole(str) == str.len = Len(str.ptr)

\* The tokens the provider issues.
Tokens == {"AAAA1111", "BBB"}
TokenBody(t) == "{\"access_token\":\"" \o t \o "\"}"

\* What HTTPClient.Do returns: a transport error with no response, or a
\* response with its status, content type and body.
Response(e, isNil, status, ctype, body) ==
  [err |-> e, IsNil |-> isNil, StatusCode |-> status, ContentType |-> ctype, Body |-> body]

NoResponse == Response("", TRUE, 0, "", "")

TokenResponses ==
  {Response("", FALSE, StatusOK, "application/json", TokenBody("AAAA1111")),
   Response("", FALSE, StatusOK, "Application/JSON;charset=UTF-8", TokenBody("BBB"))}

\* Answers with status 200 and a JSON content type whose body carries no
\* access_token: an empty body and an error document.
MissingFieldResponses ==
  {Response("", FALSE, StatusOK, "application/json", ""),
   Response("", FALSE, StatusOK, "application/json", "{\"error\":\"invalid_client\"}")}

RejectedResponses ==
  {Response("dial tcp: i/o timeout", TRUE, 0, "", ""),
   Response("", FALSE, StatusInternalServerError, "application/json", TokenBody("BBB")),
   Response("", FALSE, StatusOK, "text/html", TokenBody("BBB")),
   Response("", FALSE, StatusOK, "application/json", "<html>")}

EOFResponses == {Response("EOF", TRUE, 0, "", "")}

Responses == TokenResponses \cup MissingFieldResponses \cup RejectedResponses \cup EOFResponses

\* strings.Contains.
Contains(s, substr) ==
  \E i \in 1..(Len(s) - Len(substr) + 1) : SubSeq(s, i, i + Len(substr) - 1) = substr

\* json.NewDecoder(res.Body).Decode(&resTo) on the bodies the model delivers:
\* the error and the access_token entry of resTo.
Decode(body) ==
  CASE body = "" -> [err |-> "EOF", present |-> FALSE, value |-> ""]
    [] body = "<html>" ->
         [err |-> "invalid character '<' looking for beginning of value",
          present |-> FALSE, value |-> ""]
    [] body = "{\"error\":\"invalid_client\"}" -> [err |-> "", present |-> FALSE, value |-> ""]
    [] body = TokenBody("AAAA1111") -> [err |-> "", present |-> TRUE, value |-> "AAAA1111"]
    [] OTHER -> [err |-> "", present |-> TRUE, value |-> "BBB"]

\* fmt.Sprint(resTo["access_token"]): the text of a string entry, "<nil>"
\* for a missing one.
SprintEntry(entry) == IF entry.present THEN entry.value ELSE "<nil>"

\* An updateAccessToken that assigns the decoded entry before it looks at
\* the decode error.
UpdateAccessTokenAssigningFirst(res, before) ==
  IF res.err # "" /\ res.err # "EOF" THEN [returns |-> "error", token |-> before]
  ELSE IF res.IsNil THEN [returns |-> "panic", token |-> before]
  ELSE IF res.StatusCode # StatusOK THEN [returns |-> "error", token |-> before]
  ELSE IF ~Contains(ToLower(res.ContentType), "application/json")
    THEN [returns |-> "error", token |-> before]
  ELSE IF Decode(res.Body).err # "" /\ Decode(res.Body).err # "EOF"
    THEN [returns |-> "error", token |-> SprintEntry(Decode(res.Body))]
  ELSE [returns |-> "nil", token |-> SprintEntry(Decode(res.Body))]

\* updateAccessToken after HTTPClient.Do has returned res (lines 61-84): what
\* it returns ("error", "nil", or "panic" when it dereferences a nil
\* response) and the text of accessToken afterwards.
UpdateAccessToken(res, before) ==
  IF res.err # "" /\ res.err # "EOF" THEN [returns |-> "error", token |-> before]
  ELSE IF res.IsNil THEN [returns |-> "panic", token |-> before]
  ELSE IF res.StatusCode # StatusOK THEN [returns |-> "error", token |-> before]
  ELSE IF ~Contains(ToLower(res.ContentType), "application/json")
    THEN [returns |-> "error", token |-> before]
  ELSE IF Decode(res.Body).err # "" /\ Decode(res.Body).err # "EOF"
    THEN [returns |-> "error", token |-> before]
  ELSE [returns |-> "nil", token |-> SprintEntry(Decode(res.Body))]

\* A backoff that does not grow.
BackoffConstant(d) == Duration(d)

\* sleep = sleep * 2.
Backoff(d) == Duration(d * 2)

\* time.NewTicker(dur) and ticker.Reset(dur): the next tick is dur away; the
\* channel keeps what it holds.
Reset(t, d) == [t EXCEPT !.next = d]

\* The ticker after a quantum has passed: a tick that falls due is put in
\* the channel, whose buffer holds one tick, and the period starts again.
Elapse(t, d) ==
  IF t.next - Quantum <= 0 THEN [next |-> d, C |-> 1] ELSE [t EXCEPT !.next = @ - Quantum]

\* The worker as updateAccessTokenWorker is entered: sleep and ticker are set
\* (lines 19-20), nothing has been fetched.
InitWorker ==
  /\ accessToken = String("")
  /\ dur \in Durs
  /\ sleep = Duration(TenSeconds)
  /\ ticker = [next |-> dur, C |-> 0]
  /\ ctx = "live"
  /\ wpc = "call"
  /\ first = TRUE
  /\ asleep = 0
  /\ pending = ""
  /\ hung = FALSE
  /\ observed = String("")
  /\ failures = 0
  /\ delay = 0
  /\ waited = 0
  /\ err = "nil"

Init == InitGateway /\ InitWorker /\ dur = 3 * TenSeconds

\* ------------------------------------------------------------ SQL helpers
\* FirstByConversation without the condition on conversation_id.
FirstOfAnyConversation(table, conv) ==
  IF DOMAIN table = {} THEN 0 ELSE 1

\* First(db, "conversation_id = ?", conv): the row with the lowest primary
\* key among those of the conversation, 0 when there is none.
FirstByConversation(table, conv) ==
  LET ids == {i \in DOMAIN table : table[i].ConversationID = conv}
  IN  IF ids = {} THEN 0 ELSE CHOOSE i \in ids : \A j \in ids : i <= j

\* The unique index on mpesa_receipt_id: whether a row other than `except`
\* already holds the non-NULL value `receipt`.
ReceiptTaken(table, receipt, except) ==
  \E i \in DOMAIN table :
    /\ i # except
    /\ table[i].MpesaReceiptId.Valid
    /\ table[i].MpesaReceiptId.String = receipt

\* ---------------------------------------------------------------- actions
\* The goroutines of the HTTP server are interchangeable: a new callback is
\* served by the lowest-numbered one that is not inside fromSaf.
Free(h) == pc[h] \in {"idle", "done"}

\* The outcomes an external call can have: it may fail while the behaviour
\* has failures left.
Outcomes == IF faults < MaxFaults THEN BOOLEAN ELSE {TRUE}

Fault(ok) == faults' = IF ok THEN faults ELSE faults + 1

\* What json.Decode leaves in b2cPayload: the decoded body when fromSaf gets
\* as far as decoding it, the zero value otherwise.
Decoded(req) ==
  IF req.Method = "POST" /\ ToLower(req.ContentType) \in RecognizedContentTypes /\ req.Decodes
    THEN req.b2cPayload ELSE NoPayload

\* Correlate with the error of the Get ignored: whatever the cache holds is
\* unmarshalled.
CorrelateIgnoringError(entry, reachable) ==
  IF entry.present
    THEN Unmarshal(entry.bytes, ZeroTransferFundsRequest)
    ELSE ZeroTransferFundsRequest

\* The result of gw.RedisDB.Get(key).Result() followed by proto.Unmarshal:
\* a hit is unmarshalled into the zero tranferReq; a miss (redis.Nil) and an
\* unreachable cache both leave it zero.
Correlate(entry, reachable) ==
  IF reachable /\ entry.present
    THEN Unmarshal(entry.bytes, ZeroTransferFundsRequest)
    ELSE ZeroTransferFundsRequest

\* A callback arrives: fromSaf from its entry to the Redis lookup (lines
\* 691-746).  A request that fails a check returns 400 at once; the others go
\* on to the SQL lookup with tranferReq read from the cache.
Receive(h, req) ==
  /\ Free(h)
  /\ \A g \in Handlers : g < h => ~Free(g)
  /\ delivered < MaxCallbacks
  /\ b2cPayload' = [b2cPayload EXCEPT ![h] = Decoded(req)]
  /\ db' = [db EXCEPT ![h] = ZeroPayment]
  /\ IF Validate(req) # 0
       THEN /\ code' = [code EXCEPT ![h] = Validate(req)]
            /\ pc' = [pc EXCEPT ![h] = "done"]
            /\ delivered' = delivered
            /\ faults' = faults
            /\ tranferReq' = [tranferReq EXCEPT ![h] = ZeroTransferFundsRequest]
            /\ log' = [log EXCEPT ![h] = [ZeroLog EXCEPT !.malformed = Malformed(req)]]
       ELSE /\ code' = [code EXCEPT ![h] = 0]
            /\ pc' = [pc EXCEPT ![h] = "first"]
            /\ delivered' = delivered + 1
            /\ \E reachable \in Outcomes :
                 LET entry == RedisDB[GetMpesaRequestKey(req.b2cPayload.ConversationID)]
                 IN  /\ Fault(reachable)
                     /\ tranferReq' = [tranferReq EXCEPT ![h] = Correlate(entry, reachable)]
                     /\ log' = [log EXCEPT
                                  ![h] = [ZeroLog EXCEPT
                                            !.malformed = Malformed(req),
                                            !.cache = IF ~reachable THEN "error"
                                                      ELSE IF entry.present THEN "hit"
                                                      ELSE "miss"]]
  /\ UNCHANGED <<SQLDB, RedisDB, now, workerVars>>

\* gw.SQLDB.First(db, "conversation_id = ?", ...) and the switch on its error
\* (lines 748-750, 769, 808-811).
First(h) ==
  /\ pc[h] = "first"
  /\ \E reachable \in Outcomes :
       LET id == FirstByConversation(SQLDB, b2cPayload[h].ConversationID)
       IN  IF ~reachable
             THEN /\ faults' = faults + 1
                  /\ code' = [code EXCEPT ![h] = OnStoreError.code]
                  /\ pc' = [pc EXCEPT ![h] = OnStoreError.pc]
                  /\ db' = db
                  /\ log' = [log EXCEPT ![h].reads = @ + 1, ![h].storeErr = TRUE]
             ELSE /\ faults' = faults
                  /\ code' = code
                  /\ pc' = [pc EXCEPT ![h] = IF id = 0 THEN "create" ELSE "update"]
                  /\ db' = IF id = 0 THEN db ELSE [db EXCEPT ![h] = SQLDB[id]]
                  /\ log' = [log EXCEPT ![h].reads = @ + 1]
  /\ UNCHANGED <<SQLDB, RedisDB, now, delivered, b2cPayload, tranferReq, workerVars>>

\* gw.SQLDB.Model(db).Updates(map...): UPDATE ... WHERE id = db.ID (lines
\* 752-768).  The values are assigned to the struct as well; the statement is
\* rejected when the store is unreachable or the receipt collides with
\* another row's.
Updates(h) ==
  /\ pc[h] = "update"
  /\ \E reachable \in Outcomes :
       LET cols == UpdateColumns(b2cPayload[h])
           id == db[h].ID
           dup == ReceiptTaken(SQLDB, cols.mpesa_receipt_id, id)
       IN  /\ Fault(reachable)
           /\ db' = [db EXCEPT ![h] = AssignColumns(@, cols, now)]
           /\ IF ~reachable \/ dup
                THEN /\ code' = [code EXCEPT ![h] = OnStoreError.code]
                     /\ pc' = [pc EXCEPT ![h] = OnStoreError.pc]
                     /\ log' = [log EXCEPT ![h].writes = @ + 1, ![h].path = "update",
                                           ![h].storeErr = ~reachable,
                                           ![h].duplicate = reachable /\ dup]
                     /\ UNCHANGED <<SQLDB, now>>
                ELSE /\ SQLDB' = [SQLDB EXCEPT ![id] = AssignColumns(@, cols, now)]
                     /\ now' = now + 1
                     /\ code' = code
                     /\ pc' = [pc EXCEPT ![h] = "respond"]
                     /\ log' = [log EXCEPT ![h].writes = @ + 1, ![h].path = "update"]
  /\ UNCHANGED <<RedisDB, delivered, b2cPayload, tranferReq, workerVars>>

\* db = &Payment{...}; gw.SQLDB.Create(db) (lines 771-807): INSERT with the
\* next primary key and the creation time, rejected when the store is
\* unreachable or the receipt (when not NULL) collides with a stored one.
Create(h) ==
  /\ pc[h] = "create"
  /\ \E reachable \in Outcomes :
       LET row == NewPayment(b2cPayload[h], tranferReq[h])
           dup == row.MpesaReceiptId.Valid
                  /\ ReceiptTaken(SQLDB, row.MpesaReceiptId.String, 0)
           stored == [row EXCEPT !.ID = Len(SQLDB) + 1, !.CreatedAt = now, !.UpdatedAt = now]
       IN  IF ~reachable \/ dup
             THEN /\ Fault(reachable)
                  /\ code' = [code EXCEPT ![h] = OnStoreError.code]
                  /\ pc' = [pc EXCEPT ![h] = OnStoreError.pc]
                  /\ db' = [db EXCEPT ![h] = row]
                  /\ log' = [log EXCEPT ![h].writes = @ + 1, ![h].path = "create",
                                        ![h].storeErr = ~reachable,
                                        ![h].duplicate = reachable /\ dup]
                  /\ UNCHANGED <<SQLDB, now>>
             ELSE /\ faults' = faults
                  /\ SQLDB' = Append(SQLDB, stored)
                  /\ now' = now + 1
                  /\ code' = code
                  /\ pc' = [pc EXCEPT ![h] = "respond"]
                  /\ db' = [db EXCEPT ![h] = stored]
                  /\ log' = [log EXCEPT ![h].writes = @ + 1, ![h].path = "create"]
  /\ UNCHANGED <<RedisDB, delivered, b2cPayload, tranferReq, workerVars>>

\* The rest of fromSaf (lines 813-852): pb := PaymentProto(db); the publish
\* block, whose call to PublishB2CPayment may fail and whose error is only
\* logged; then w.Write, whose error alone decides the returned status.
Respond(h) ==
  /\ pc[h] = "respond"
  /\ \E published, written \in BOOLEAN :
       LET pb == PaymentProto(db[h])
           gate == ShouldPublish(tranferReq[h], pb)
           failed == (IF gate /\ ~published THEN 1 ELSE 0) + (IF written THEN 0 ELSE 1)
       IN  /\ gate \/ published
           /\ faults + failed <= MaxFaults
           /\ faults' = faults + failed
           /\ code' = [code EXCEPT ![h] = ResponseStatus(published, written)]
           /\ log' = [log EXCEPT
                        ![h].publishes = IF gate THEN @ + 1 ELSE @,
                        ![h].publishErr = gate /\ ~published,
                        ![h].message = IF gate
                                         THEN PublishMessage(tranferReq[h], pb, b2cPayload[h])
                                         ELSE @,
                        ![h].response = IF written THEN "written" ELSE "failed"]
  /\ pc' = [pc EXCEPT ![h] = "done"]
  /\ UNCHANGED <<SQLDB, RedisDB, now, delivered, b2cPayload, tranferReq, db, workerVars>>

Next ==
  \/ \E h \in Handlers, req \in Requests : Receive(h, req)
  \/ \E h \in Handlers : First(h)
  \/ \E h \in Handlers : Updates(h)
  \/ \E h \in Handlers : Create(h)
  \/ \E h \in Handlers : Respond(h)

Spec == Init /\ [][Next]_vars

\* The external processing step (the ProcessB2CPayment call of the API, which
\* is not part of the callback gateway): it marks a stored payment processed.
ProcessB2CPayment(i) ==
  /\ SQLDB[i].Processed = "NO"
  /\ SQLDB' = [SQLDB EXCEPT ![i].Processed = "YES", ![i].UpdatedAt = now]
  /\ now' = now + 1
  /\ UNCHANGED <<RedisDB, delivered, faults, pc, b2cPayload, tranferReq, db, code, log, workerVars>>

\* The gateway together with the external processing step.
NextProcessed ==
  \/ Next
  \/ \E i \in DOMAIN SQLDB : ProcessB2CPayment(i)

SpecProcessed == Init /\ [][NextProcessed]_vars

\* ------------------------------------------------------ worker actions
\* The failure branch of updateToken up to its time.Sleep(sleep) (lines
\* 26-28); a duration that is not positive makes Sleep return at once.
Sleeps ==
  /\ wpc' = "sleep"
  /\ asleep' = IF sleep > 0 THEN sleep ELSE 0
  /\ delay' = sleep
  /\ failures' = IF failures < BackoffSteps THEN failures + 1 ELSE failures
  /\ waited' = 0

\* updateToken calls updateAccessToken, which builds the request and hands
\* it to HTTPClient.Do (lines 25, 52-61).  http.NewRequest fails on an
\* AccessTokenURL that does not parse; a request that was sent is answered
\* later, or never.
Do ==
  /\ wpc = "call"
  /\ \E built, never \in BOOLEAN :
       IF built
         THEN /\ wpc' = "request"
              /\ hung' = never
              /\ UNCHANGED <<asleep, delay, failures, waited, err>>
         ELSE /\ ~never
              /\ Sleeps
              /\ hung' = FALSE
              /\ err' = "error"
  /\ UNCHANGED <<accessToken, dur, sleep, ticker, ctx, first, pending, observed, gatewayVars>>

\* HTTPClient.Do returns res and the rest of updateAccessToken runs (lines
\* 61-82).  An error return goes into the failure branch of updateToken; a
\* nil response is dereferenced and the goroutine panics; otherwise line 82
\* assigns the new string to accessToken, a plain field that other
\* goroutines read without synchronisation: the two words of the string
\* header are stored one after the other, in either order.
Answer(res) ==
  /\ wpc = "request"
  /\ ~hung
  /\ LET out == UpdateAccessToken(res, accessToken.ptr)
     IN  IF out.returns = "error"
              THEN /\ Sleeps
                   /\ err' = "error"
                   /\ accessToken' = String(out.token)
                   /\ pending' = pending
              ELSE IF out.returns = "panic"
                THEN /\ wpc' = "panicked"
                     /\ UNCHANGED <<accessToken, pending, asleep, delay, failures, waited, err>>
                ELSE /\ wpc' = "store"
                     /\ pending' = out.token
                     /\ \E word \in {"ptr", "len"} :
                          accessToken' = IF word = "ptr"
                                           THEN [accessToken EXCEPT !.ptr = out.token]
                                           ELSE [accessToken EXCEPT !.len = Len(out.token)]
                     /\ UNCHANGED <<asleep, delay, failures, waited, err>>
  /\ UNCHANGED <<dur, sleep, ticker, ctx, first, hung, observed, gatewayVars>>

\* The assignment of line 82 completes, updateAccessToken returns nil and
\* updateToken takes its success branch (lines 31-33); after the first call
\* line 39 resets the ticker once more.
Store ==
  /\ wpc = "store"
  /\ accessToken' = String(pending)
  /\ pending' = ""
  /\ ticker' = Reset(ticker, dur)
  /\ sleep' = Duration(TenSeconds)
  /\ failures' = 0
  /\ waited' = 0
  /\ first' = FALSE
  /\ err' = "nil"
  /\ wpc' = "select"
  /\ UNCHANGED <<dur, ctx, asleep, hung, observed, delay, gatewayVars>>

\* time.Sleep returns: sleep is doubled (line 29) and the worker goes to its
\* select, through the ticker.Reset of line 39 after the first call.
Wake ==
  /\ wpc = "sleep"
  /\ asleep = 0
  /\ sleep' = Backoff(sleep)
  /\ ticker' = IF first THEN Reset(ticker, dur) ELSE ticker
  /\ first' = FALSE
  /\ wpc' = "select"
  /\ UNCHANGED <<accessToken, dur, ctx, asleep, pending, hung, observed, failures, delay,
                 waited, err, gatewayVars>>

\* select, case <-ctx.Done() (lines 43-44).
Done ==
  /\ wpc = "select"
  /\ ctx = "done"
  /\ wpc' = "exited"
  /\ UNCHANGED <<accessToken, dur, sleep, ticker, ctx, first, asleep, pending, hung, observed,
                 failures, delay, waited, err, gatewayVars>>

\* select, case <-ticker.C (lines 45-46).  When both cases are ready the
\* select takes either.
Tick ==
  /\ wpc = "select"
  /\ ticker.C = 1
  /\ ticker' = [ticker EXCEPT !.C = 0]
  /\ wpc' = "call"
  /\ UNCHANGED <<accessToken, dur, sleep, ctx, first, asleep, pending, hung, observed,
                 failures, delay, waited, err, gatewayVars>>

\* Whether the worker goroutine is blocked: in HTTPClient.Do, in time.Sleep,
\* or in the select with neither case ready.
Blocked ==
  \/ wpc = "request"
  \/ wpc = "sleep" /\ asleep > 0
  \/ wpc = "select" /\ ticker.C = 0 /\ ctx = "live"

\* One quantum of time passes while the worker is blocked.
Pass ==
  /\ Blocked
  /\ ticker' = Elapse(ticker, dur)
  /\ asleep' = IF wpc = "sleep" THEN asleep - Quantum ELSE asleep
  /\ waited' = IF wpc \in {"sleep", "select"} THEN waited + Quantum ELSE waited
  /\ UNCHANGED <<accessToken, dur, sleep, ctx, wpc, first, pending, hung, observed, failures,
                 delay, err, gatewayVars>>

\* The context handed to the worker is cancelled.
Cancel ==
  /\ ctx = "live"
  /\ wpc \notin {"exited", "panicked"}
  /\ ctx' = "done"
  /\ UNCHANGED <<accessToken, dur, sleep, ticker, wpc, first, asleep, pending, hung, observed,
                 failures, delay, waited, err, gatewayVars>>

\* An outbound call path reads accessToken for its Authorization header.
ReadToken ==
  /\ wpc # "panicked"
  /\ observed # accessToken
  /\ observed' = accessToken
  /\ UNCHANGED <<accessToken, dur, sleep, ticker, ctx, wpc, first, asleep, pending, hung,
                 failures, delay, waited, err, gatewayVars>>

NextWorker ==
  \/ Do
  \/ \E res \in Responses : Answer(res)
  \/ Store
  \/ Wake
  \/ Done
  \/ Tick
  \/ Pass
  \/ Cancel
  \/ ReadToken

\* The worker started with either interval, the gateway at rest.
InitWorkerRun ==
  /\ InitGateway
  /\ RedisDB = Cache(Cached(PublishOnSuccessRequest), Absent)
  /\ InitWorker

SpecWorker == InitWorkerRun /\ [][NextWorker]_vars

\* The worker's own steps, each taken once it stays possible, and time, which
\* keeps passing while the worker is blocked; the provider answers every
\* request that it does not leave hanging.
SpecWorkerFair ==
  /\ SpecWorker
  /\ WF_vars(Do) /\ WF_vars(Store) /\ WF_vars(Wake) /\ WF_vars(Done \/ Tick)
  /\ WF_vars(Pass)
  /\ WF_vars(\E res \in Responses : Answer(res))

\* ----------------------------------------------------------------- claims
\* The rows stored for conversation c.
RowsOf(c) == {i \in DOMAIN SQLDB : SQLDB[i].ConversationID = c}

\* The outcome-bearing fields of a row.
OutcomeFields(row) ==
  [ResultCode |-> row.ResultCode,
   ResultDescription |-> row.ResultDescription,
   WorkingAccountFunds |-> row.WorkingAccountFunds,
   UtilityAccountFunds |-> row.UtilityAccountFunds,
   MpesaCharges |-> row.MpesaCharges,
   MpesaReceiptId |-> row.MpesaReceiptId,
   RecipientRegistered |-> row.RecipientRegistered,
   ReceiverPublicName |-> row.ReceiverPublicName,
   B2CStatus |-> row.B2CStatus,
   Succeeded |-> row.Succeeded,
   TransactionTime |-> row.TransactionTime]

\* Everything else but the last-update timestamp: the identity fields and the
\* fields the callback never carries.
IdentityFields(row) ==
  [ID |-> row.ID,
   InitiatorID |-> row.InitiatorID,
   InitiatorCustomerReference |-> row.InitiatorCustomerReference,
   InitiatorCustomerNames |-> row.InitiatorCustomerNames,
   Msisdn |-> row.Msisdn,
   OrgShortCode |-> row.OrgShortCode,
   CommandId |-> row.CommandId,
   TransactionAmount |-> row.TransactionAmount,
   ConversationID |-> row.ConversationID,
   OriginatorConversationID |-> row.OriginatorConversationID,
   ResponseDescription |-> row.ResponseDescription,
   ResponseCode |-> row.ResponseCode,
   SystemCharges |-> row.SystemCharges,
   Source |-> row.Source,
   Tag |-> row.Tag,
   Processed |-> row.Processed,
   CreatedAt |-> row.CreatedAt]

\* C1: in every reachable state there is at most one row per conversation
\* identifier, and exactly one once a callback for it has been answered 200.
\* The table has no unique index on conversation_id, so two handlers that
\* both miss on First both insert.
C1_OneRecordPerConversation ==
  \A c \in Convs :
    /\ Cardinality(RowsOf(c)) <= 1
    /\ (\E h \in Handlers :
          pc[h] = "done" /\ code[h] = StatusOK /\ b2cPayload[h].ConversationID = c)
       => Cardinality(RowsOf(c)) = 1

\* C2: a create that the store rejects for a uniqueness violation is
\* completed as an update and answered 200.  fromSaf returns 500 instead.
C2_ConflictAnswered200 ==
  \A h \in Handlers :
    (pc[h] = "done" /\ log[h].path = "create" /\ log[h].duplicate)
    => code[h] = StatusOK

\* C3: redelivery is idempotent: when a callback, with no other handler in
\* flight, updates a row whose outcome fields are those its own first
\* delivery left (by create or by update), the conversation still has exactly one row and the outcome fields are the
\* same after the update.  A callback without receipt creates the row with a
\* NULL receipt and updates it to the empty string.
C3_RedeliveryIdempotent ==
  [][\A h \in Handlers :
       (/\ pc[h] = "update" /\ pc'[h] = "respond"
        /\ \A g \in Handlers \ {h} : Free(g)
        /\ OutcomeFields(SQLDB[db[h].ID]) \in
             {OutcomeFields(NewPayment(b2cPayload[h], tranferReq[h])),
              OutcomeFields(AssignColumns(ZeroPayment, UpdateColumns(b2cPayload[h]), 0))})
       => /\ OutcomeFields(SQLDB'[db[h].ID]) = OutcomeFields(SQLDB[db[h].ID])
          /\ Cardinality({i \in DOMAIN SQLDB' :
                            SQLDB'[i].ConversationID = b2cPayload[h].ConversationID}) = 1]_vars

\* C4: identity stability: an update (the step of a handler from "update" to
\* "respond") leaves every field of the updated row other than the outcome
\* fields and the last-update timestamp as it was (the surrogate ID, the
\* initiator fields, msisdn, org short code, command id, amount, conversation
\* ids, creation time), and leaves every other row alone.
C4_IdentityStable ==
  [][\A h \in Handlers :
       (pc[h] = "update" /\ pc'[h] = "respond")
       => /\ DOMAIN SQLDB' = DOMAIN SQLDB
          /\ IdentityFields(SQLDB'[db[h].ID]) = IdentityFields(SQLDB[db[h].ID])
          /\ \A i \in DOMAIN SQLDB : i # db[h].ID => SQLDB'[i] = SQLDB[i]]_vars

\* C4 witness: a row has been updated by a callback whose correlation data
\* and amount differ from the identity stored at creation.
C4_Witness ==
  \E h \in Handlers :
    /\ pc[h] = "respond" /\ log[h].path = "update"
    /\ SQLDB[db[h].ID].InitiatorID # tranferReq[h].InitiatorId
    /\ SQLDB[db[h].ID].OrgShortCode # tranferReq[h].ShortCode
    /\ SQLDB[db[h].ID].TransactionAmount # Float32(b2cPayload[h].TransactionAmount)
    /\ SQLDB[db[h].ID].CreatedAt < SQLDB[db[h].ID].UpdatedAt

\* C5: outcome derivation: whenever a create or an update is accepted by the
\* store, the row it wrote has succeeded = YES and status B2C_SUCCESS if the
\* callback's result code is 0, and NO / B2C_FAILED otherwise.
C5_OutcomeDerivation ==
  [][\A h \in Handlers :
       (pc[h] \in {"create", "update"} /\ pc'[h] = "respond")
       => LET row == SQLDB'[db'[h].ID]
          IN  /\ row.ConversationID = b2cPayload[h].ConversationID
              /\ b2cPayload[h].ResultCode = 0
                   => row.Succeeded = "YES" /\ row.B2CStatus = "B2C_SUCCESS"
              /\ b2cPayload[h].ResultCode # 0
                   => row.Succeeded = "NO" /\ row.B2CStatus = "B2C_FAILED"]_vars

\* C5 witness: a failed callback has updated a row that a successful one
\* created.
C5_Witness ==
  \E h \in Handlers :
    /\ pc[h] = "respond" /\ log[h].path = "update"
    /\ b2cPayload[h].ResultCode # 0
    /\ SQLDB[db[h].ID].Succeeded = "NO"
    /\ SQLDB[db[h].ID].TransactionAmount = 100

\* The request that was submitted for the conversation of handler h, as far as
\* its cache lookup told: the cached request on a hit, nothing otherwise.
Correlated(h) ==
  IF log[h].cache = "hit"
    THEN CHOOSE t \in {NoPublishRequest, PublishAlwaysRequest, PublishOnSuccessRequest} :
           Cached(t) = RedisDB[GetMpesaRequestKey(b2cPayload[h].ConversationID)]
    ELSE ZeroTransferFundsRequest

\* C6: the Notification Gate: a handler that has not come to the publish
\* block has published nothing; one that has, has called PublishB2CPayment
\* never if the correlated request has publish = false (every correlation
\* miss included), once if publish = true and onlyOnSuccess = false, and, if
\* both are true, once when the callback's result code is 0 and never
\* otherwise.
C6_NotificationGate ==
  \A h \in Handlers :
    LET t == Correlated(h)
        onlyOnSuccess == ~t.PublishMessage.IsNil /\ t.PublishMessage.OnlyOnSuccess
    IN  IF log[h].response = ""
          THEN log[h].publishes = 0
          ELSE /\ ~t.Publish => log[h].publishes = 0
               /\ log[h].cache \in {"miss", "error"} => log[h].publishes = 0
               /\ (t.Publish /\ ~onlyOnSuccess) => log[h].publishes = 1
               /\ (t.Publish /\ onlyOnSuccess)
                    => log[h].publishes = (IF b2cPayload[h].ResultCode = 0 THEN 1 ELSE 0)

\* C6 witness: under publish-only-on-success, a successful callback that
\* updated an existing row was published.
C6_Witness ==
  \E h \in Handlers :
    /\ pc[h] = "done" /\ log[h].path = "update"
    /\ Correlated(h).Publish /\ Correlated(h).PublishMessage.OnlyOnSuccess
    /\ b2cPayload[h].ResultCode = 0
    /\ log[h].publishes = 1

\* C7: a malformed request is answered 400 and causes no cache read, no SQL
\* read or write and no notification.
C7_RejectedNoSideEffects ==
  \A h \in Handlers :
    log[h].malformed
    => /\ pc[h] = "done" /\ code[h] = StatusBadRequest
       /\ log[h].cache = "" /\ log[h].reads = 0 /\ log[h].writes = 0
       /\ log[h].publishes = 0 /\ log[h].response = ""

\* C7, the store: the table changes only in the insert or update step of a
\* handler whose request is not malformed.
C7_StoreUnchanged ==
  [][SQLDB' # SQLDB
       => \E h \in Handlers :
            /\ pc[h] \in {"create", "update"} /\ pc'[h] = "respond"
            /\ ~log[h].malformed]_vars

\* C7: both parts.
C7_Rejected == []C7_RejectedNoSideEffects /\ C7_StoreUnchanged

\* C7 witness: a callback with an empty result description was turned away
\* while the table held a row.
C7_Witness ==
  \E h \in Handlers :
    /\ log[h].malformed /\ pc[h] = "done"
    /\ b2cPayload[h].ResultDesc = "" /\ b2cPayload[h].ConversationID # ""
    /\ Len(SQLDB) > 0

\* C8: correlation-miss fallback: when the cache had no entry or could not be
\* reached, a create the store accepts writes a row whose initiator id,
\* customer reference, customer names and org short code are empty and whose
\* outcome fields come from the callback; and the handler answers 200 when
\* the response is written.
C8_MissFallbackRow ==
  [][\A h \in Handlers :
       (pc[h] = "create" /\ pc'[h] = "respond" /\ log[h].cache \in {"miss", "error"})
       => LET row == SQLDB'[Len(SQLDB')]
              p == b2cPayload[h]
          IN  /\ Len(SQLDB') = Len(SQLDB) + 1
              /\ row.ConversationID = p.ConversationID
              /\ row.InitiatorID = "" /\ row.InitiatorCustomerReference = ""
              /\ row.InitiatorCustomerNames = "" /\ row.OrgShortCode = ""
              /\ row.ResultCode = Sprint(p.ResultCode)
              /\ row.ResultDescription = p.ResultDesc
              /\ row.WorkingAccountFunds = Float32(p.B2CWorkingAccountAvailableFunds)
              /\ row.UtilityAccountFunds = Float32(p.B2CUtilityAccountAvailableFunds)
              /\ row.MpesaCharges = Float32(p.B2CChargesPaidAccountAvailableFunds)
              /\ row.MpesaReceiptId = NullString(p.TransactionReceipt # "", p.TransactionReceipt)
              /\ row.RecipientRegistered = p.B2CRecipientIsRegisteredCustomer
              /\ row.ReceiverPublicName = p.ReceiverPartyPublicName
              /\ row.Succeeded = (IF p.ResultCode = 0 THEN "YES" ELSE "NO")
              /\ row.B2CStatus = (IF p.ResultCode = 0 THEN "B2C_SUCCESS" ELSE "B2C_FAILED")
              /\ row.TransactionTime = NullTime(TRUE, p.TransactionCompletedDateTime)]_vars

\* C8, the answer: a handler that took the create path after a miss goes on
\* to insert, and once the insert is accepted and the response written it
\* has answered 200.
C8_MissFallbackAnswer ==
  \A h \in Handlers :
    (log[h].cache \in {"miss", "error"} /\ log[h].path = "create"
     /\ ~log[h].storeErr /\ ~log[h].duplicate /\ log[h].response = "written")
    => pc[h] = "done" /\ code[h] = StatusOK /\ RowsOf(b2cPayload[h].ConversationID) # {}

\* C8: both parts.
C8_MissFallback == C8_MissFallbackRow /\ []C8_MissFallbackAnswer

\* C8 witness: with the cache unreachable for a conversation that has a
\* cached request, a successful callback created the row and was answered 200.
C8_Witness ==
  \E h \in Handlers :
    /\ pc[h] = "done" /\ code[h] = StatusOK
    /\ log[h].cache = "error" /\ log[h].path = "create"
    /\ RedisDB[GetMpesaRequestKey(b2cPayload[h].ConversationID)].present
    /\ SQLDB[db[h].ID].OrgShortCode = ""
    /\ SQLDB[db[h].ID].MpesaReceiptId = NullString(TRUE, b2cPayload[h].TransactionReceipt)

\* C9: a failed publish call does not fail the callback: the handler answers
\* 200 whenever the response is written.
C9_PublishFailureAnswered200 ==
  \A h \in Handlers :
    (pc[h] = "done" /\ log[h].publishErr /\ log[h].response = "written")
    => code[h] = StatusOK

\* C9, the record: the step that publishes and answers leaves the table as
\* it was written.
C9_RecordLeftAsWritten ==
  [][\A h \in Handlers : pc[h] = "respond" => SQLDB' = SQLDB \/ pc'[h] = "respond"]_vars

\* C9: both parts.
C9_PublishFailureSwallowed == []C9_PublishFailureAnswered200 /\ C9_RecordLeftAsWritten

\* C9 witness: a publish call failed after the row was written and the
\* callback was answered 200.
C9_Witness ==
  \E h \in Handlers :
    /\ pc[h] = "done" /\ log[h].publishErr /\ code[h] = StatusOK
    /\ log[h].writes = 1 /\ RowsOf(b2cPayload[h].ConversationID) # {}

\* C10: a persistence failure (the lookup fails with another error than
\* not-found, or the store rejects the update or the create) ends the handler
\* with 500, with no notification and with no second attempt at the lookup
\* or the write.
C10_PersistenceFailureFatal ==
  \A h \in Handlers :
    (log[h].storeErr \/ log[h].duplicate)
    => /\ pc[h] = "done" /\ code[h] = StatusInternalServerError
       /\ log[h].publishes = 0 /\ log[h].response = ""
       /\ log[h].reads = 1 /\ log[h].writes <= 1

\* C10 witness: an update was rejected by the store.
C10_Witness ==
  \E h \in Handlers :
    /\ pc[h] = "done" /\ log[h].storeErr /\ log[h].path = "update"
    /\ code[h] = StatusInternalServerError

\* C11: the gateway never sets processed to YES: in every step of a handler
\* (a step that moves some handler's position in fromSaf) a row that is new
\* in the table has processed = NO and every row already in the table keeps
\* its processed value, also after the external processing step has set it
\* to YES.
C11_ProcessedUntouched ==
  [][(\E h \in Handlers : pc'[h] # pc[h])
     => /\ \A i \in DOMAIN SQLDB : /\ i \in DOMAIN SQLDB'
                                   /\ SQLDB'[i].Processed = SQLDB[i].Processed
        /\ \A i \in DOMAIN SQLDB' \ DOMAIN SQLDB : SQLDB'[i].Processed = "NO"]_vars

\* C11 witness: a callback found a row already marked processed, updated it,
\* and the row is still marked processed with the callback's outcome on it.
C11_Witness ==
  \E h \in Handlers :
    /\ pc[h] = "respond" /\ log[h].path = "update"
    /\ db[h].Processed = "YES"
    /\ SQLDB[db[h].ID].Processed = "YES"
    /\ SQLDB[db[h].ID].ResultCode = Sprint(b2cPayload[h].ResultCode)
    /\ SQLDB[db[h].ID].UpdatedAt = db[h].UpdatedAt

\* C12: an answer with status 200 and a JSON content type but no
\* access_token (an empty body, or a document without the field) is a
\* refresh failure: updateAccessToken returns an error, the stored access
\* token keeps its value and the worker goes into its backoff sleep.
C12_MissingFieldIsFailure ==
  [][\A res \in MissingFieldResponses :
       Answer(res) => /\ err' = "error"
                      /\ accessToken' = accessToken
                      /\ wpc' = "sleep"]_vars

\* C13: a failed refresh leaves the credential untouched: in every step in
\* which updateAccessToken returns an error (the worker enters the failure
\* branch of updateToken: the request could not be built, the transport
\* failed, the status was not 200, the content type was not JSON, the body
\* did not decode) the stored access token is the whole string it was
\* before the attempt.
C13_FailureLeavesToken ==
  [][(wpc # "sleep" /\ wpc' = "sleep")
     => /\ err' = "error"
        /\ accessToken' = accessToken
        /\ Whole(accessToken')]_vars

\* C13 witness: after a successful refresh two attempts in a row have
\* failed, and the token of the successful one is still stored.
C13_Witness ==
  /\ wpc = "sleep" /\ err = "error"
  /\ failures >= 2
  /\ accessToken = String("AAAA1111")

\* C14: retry is driven by the backoff delay: while the worker is degraded
\* (its last attempt failed) and not shut down, no more time than the
\* backoff delay of that failure passes before its next attempt, whatever
\* the nominal interval is; this includes a failed first fetch.
C14_RetryAfterBackoff ==
  (err = "error" /\ ctx = "live" /\ delay > 0 /\ wpc \in {"sleep", "select"})
  => waited <= delay

\* C15: backoff progression and reset: the first, second and third failed
\* attempt in a row sleep 10s, 20s and 40s (each failure sleeps twice as long
\* as the one before), and a successful refresh sets the next backoff delay
\* back to 10s and the ticker back to the nominal interval.
C15_BackoffProgression ==
  [][/\ (wpc # "sleep" /\ wpc' = "sleep" /\ failures < BackoffSteps)
        => /\ delay' = TenSeconds * 2^failures
           /\ asleep' = delay'
     /\ (wpc = "store" /\ wpc' # "store")
        => /\ sleep' = TenSeconds
           /\ ticker'.next = dur]_vars

\* C15 witness: after a successful refresh the third failed attempt in a row
\* is sleeping its 40s.
C15_Witness ==
  /\ wpc = "sleep"
  /\ failures = 3 /\ delay = 4 * TenSeconds /\ asleep = delay
  /\ accessToken = String("BBB")

\* C16: the backoff delay is bounded: whatever the number of failures in a
\* row, the delay the worker will sleep next is at least the initial 10s and
\* at most a ceiling (here the largest one the duration type allows); it
\* never wraps around into a value that is not positive.
C16_BackoffBounded == sleep >= TenSeconds /\ sleep <= MaxDuration

\* C17: prompt shutdown: once the context is cancelled, no time passes with
\* the worker still in a backoff sleep, and a worker that was waiting (in
\* the sleep or in the select) when the context was cancelled makes no
\* further refresh attempt.
C17_PromptShutdown ==
  [][/\ (ctx = "done" /\ wpc = "sleep") => waited' = waited
     /\ (ctx = "done" /\ wpc \in {"sleep", "select"}) => wpc' # "call"]_vars

\* C18: no refresh outcome terminates the worker: whatever HTTPClient.Do
\* returns, updateAccessToken returns to updateToken and the worker
\* goroutine goes on; it never ends in a panic.
C18_WorkerSurvives == wpc # "panicked"

\* C19: atomic reads of the credential: what a reader of accessToken sees is
\* always a whole string, and it is the initial empty value or a token the
\* provider issued and a successful refresh committed.
C19_ReadsAreCommitted ==
  /\ Whole(observed)
  /\ observed.ptr \in {""} \cup Tokens

\* C20: a hanging token endpoint cannot stall the refresh loop: a token
\* request that is in flight always ends after some time, also when the
\* provider never answers it, so that the worker gets on to its retry or to
\* its shutdown.
C20_HangingRequestEnds == (wpc = "request") ~> (wpc # "request")

\* C21: correlation hit on create, the amount: when a failed callback, which
\* carries no transaction amount, for a conversation with no row finds its
\* transfer request in the cache, the row it creates has the amount of the
\* cached request.
C21_FailedCallbackAmount ==
  [][\A h \in Handlers :
       (pc[h] = "create" /\ pc'[h] = "respond" /\ log[h].cache = "hit"
        /\ b2cPayload[h].ResultCode # 0)
       => SQLDB'[Len(SQLDB')].TransactionAmount = Float32(Correlated(h).Amount)]_vars

\* C22: the record handed to the Notification Gate is the finalized one on
\* both paths: once a handler's create or update has been accepted, the
\* translated record that the publish block decides on and publishes has the
\* succeeded flag, status, result code and receipt of the callback just
\* handled, its transaction id is the primary key of a stored row of the
\* callback's conversation, and a published message carries exactly it.
C22_FinalizedRecordPublished ==
  \A h \in Handlers :
    (pc[h] = "respond" \/ (pc[h] = "done" /\ log[h].response # ""))
    => LET pb == PaymentProto(db[h])
           p == b2cPayload[h]
       IN  /\ pb.Succeeded = (p.ResultCode = 0)
           /\ pb.B2CStatus = B2CStatusValue(Outcome(p).status)
           /\ pb.B2CResultCode = Sprint(p.ResultCode)
           /\ pb.MpesaReceiptId = p.TransactionReceipt
           /\ pb.ConversationId = p.ConversationID
           /\ pb.TransactionId \in DOMAIN SQLDB
           /\ SQLDB[pb.TransactionId].ConversationID = p.ConversationID
           /\ log[h].publishes = 1
                => /\ log[h].message.Payment = pb
                   /\ log[h].message.TransactionId = pb.TransactionId
                   /\ log[h].message.MpesaReceiptId = pb.MpesaReceiptId

\* C22 witness: a row created by a failed callback has been updated by a
\* successful one, whose handler published the record as succeeded under
\* publish-only-on-success.
C22_Witness ==
  \E g, h \in Handlers :
    /\ g # h
    /\ log[g].path = "create" /\ pc[g] \in {"respond", "done"}
    /\ b2cPayload[g].ResultCode # 0
    /\ pc[h] = "done" /\ log[h].path = "update"
    /\ db[h].ID = db[g].ID
    /\ log[h].publishes = 1
    /\ log[h].message.Payment.Succeeded
    /\ Correlated(h).PublishMessage.OnlyOnSuccess

\* The payloads of the callbacks that pass validation.
AcceptedPayloads == {r.b2cPayload : r \in ValidRequests}

\* Whether every outcome field of a row is the one that callback p carries.
FromCallback(row, p) ==
  /\ row.ResultCode = Sprint(p.ResultCode)
  /\ row.ResultDescription = p.ResultDesc
  /\ row.WorkingAccountFunds = Float32(p.B2CWorkingAccountAvailableFunds)
  /\ row.UtilityAccountFunds = Float32(p.B2CUtilityAccountAvailableFunds)
  /\ row.MpesaCharges = Float32(p.B2CChargesPaidAccountAvailableFunds)
  /\ row.RecipientRegistered = p.B2CRecipientIsRegisteredCustomer
  /\ row.MpesaReceiptId.String = p.TransactionReceipt
  /\ row.TransactionTime = NullTime(TRUE, p.TransactionCompletedDateTime)
  /\ row.ReceiverPublicName = p.ReceiverPartyPublicName
  /\ row.B2CStatus = (IF p.ResultCode = 0 THEN "B2C_SUCCESS" ELSE "B2C_FAILED")
  /\ row.Succeeded = (IF p.ResultCode = 0 THEN "YES" ELSE "NO")

\* C23, the states: the outcome fields of every stored row all come from one
\* single callback.
C23_NoMixing ==
  \A i \in DOMAIN SQLDB : \E p \in AcceptedPayloads : FromCallback(SQLDB[i], p)

\* C23, the steps: an accepted update leaves the row with the outcome fields
\* of the callback whose update it is.
C23_LastWriter ==
  [][\A h \in Handlers :
       (pc[h] = "update" /\ pc'[h] = "respond")
       => FromCallback(SQLDB'[db[h].ID], b2cPayload[h])]_vars

C24_PublishedAfterWrite ==
  \A h \in Handlers :
    /\ log[h].publishes <= 1
    /\ log[h].publishes > 0
         => /\ log[h].writes = 1
            /\ ~log[h].storeErr
            /\ ~log[h].duplicate
            /\ log[h].path \in {"create", "update"}

\* C24, the steps: the publish call is made in the step that ends with the
\* response, after the write and with no response written yet; a handler that
\* has returned does nothing more until it is given a new request, and the
\* store is only written by a handler that is at its write.
C24_Steps ==
  [][/\ \A h \in Handlers :
          /\ log'[h].publishes > log[h].publishes
               => /\ pc[h] = "respond" /\ pc'[h] = "done"
                  /\ log[h].response = ""
                  /\ log[h].writes = 1 /\ log'[h].writes = 1
          /\ (pc[h] = "done" /\ ~(\E req \in Requests : Receive(h, req)))
               => /\ pc'[h] = "done"
                  /\ log'[h] = log[h]
                  /\ code'[h] = code[h]
                  /\ db'[h] = db[h]
     /\ SQLDB' # SQLDB
          => \E h \in Handlers : pc[h] \in {"create", "update"} /\ pc'[h] = "respond"]_vars

\* C24: ordering within one callback: a notification is emitted at most once
\* per handled callback, only after that callback's create or update has
\* succeeded, and before the success response is written; the handler starts
\* no work that outlives the request.
C24_OrderingWithinCallback == []C24_PublishedAfterWrite /\ C24_Steps

\* C24 witness: a handler has returned 200 after one accepted write and one
\* publish call, while another handler is still at work.
C24_Witness ==
  \E g, h \in Handlers :
    /\ g # h
    /\ pc[h] = "done" /\ code[h] = StatusOK
    /\ log[h].writes = 1 /\ log[h].publishes = 1
    /\ log[h].response = "written"
    /\ pc[g] \in {"first", "create", "update", "respond"}

\* C25: an absent receipt is never a populated receipt: an accepted write of
\* a callback that carries no receipt, on the create path and on the update
\* path alike, leaves the row's receipt NULL, so receipt-less callbacks for
\* different conversations never meet on the unique index of the receipt.
C25_AbsentReceiptUnpopulated ==
  [][\A h \in Handlers :
       (/\ pc[h] \in {"create", "update"} /\ pc'[h] = "respond"
        /\ b2cPayload[h].TransactionReceipt = "")
       => LET id == IF pc[h] = "create" THEN Len(SQLDB') ELSE db[h].ID
          IN  ~SQLDB'[id].MpesaReceiptId.Valid]_vars

\* C26: isolation between conversations: in any interleaving of handlers, a
\* row that changes belongs to the conversation of a handler that is at its
\* update, a row that appears carries the conversation of the handler that
\* is at its create, no row disappears, and every other row is unchanged.
C26_IsolationBetweenConversations ==
  [][/\ Len(SQLDB') >= Len(SQLDB)
     /\ \A i \in DOMAIN SQLDB :
          SQLDB'[i] # SQLDB[i]
            => /\ SQLDB'[i].ConversationID = SQLDB[i].ConversationID
               /\ \E h \in Handlers :
                    /\ pc[h] = "update" /\ pc'[h] = "respond"
                    /\ b2cPayload[h].ConversationID = SQLDB[i].ConversationID
     /\ \A i \in DOMAIN SQLDB' \ DOMAIN SQLDB :
          \E h \in Handlers :
            /\ pc[h] = "create" /\ pc'[h] = "respond"
            /\ b2cPayload[h].ConversationID = SQLDB'[i].ConversationID]_vars

\* C26 witness: a callback for one conversation has been handled to the end
\* by a handler that found the row of another conversation in the store, and
\* each row holds the outcome of its own conversation's callback.
C26_Witness ==
  \E g, h \in Handlers :
    /\ g # h
    /\ log[g].path = "create" /\ log[h].path = "create"
    /\ pc[g] \in {"respond", "done"} /\ pc[h] = "done" /\ code[h] = StatusOK
    /\ b2cPayload[g].ConversationID # b2cPayload[h].ConversationID
    /\ db[g].ID = 1 /\ db[h].ID = 2 /\ Len(SQLDB) = 2
    /\ SQLDB[1].ConversationID = b2cPayload[g].ConversationID
    /\ SQLDB[2].ConversationID = b2cPayload[h].ConversationID
    /\ FromCallback(SQLDB[1], b2cPayload[g])
    /\ SQLDB[1].ResultCode # SQLDB[2].ResultCode

\* C27: outcome consistency invariant: every stored row has succeeded = YES
\* exactly when its status is B2C_SUCCESS exactly when its result code is
\* "0", and succeeded = NO exactly when its status is B2C_FAILED; no row has
\* succeeded = UNKNOWN or a status other than B2C_SUCCESS / B2C_FAILED.
C27_OutcomeConsistency ==
  \A i \in DOMAIN SQLDB :
    LET row == SQLDB[i]
    IN  /\ row.Succeeded \in {"YES", "NO"}
        /\ row.B2CStatus \in {"B2C_SUCCESS", "B2C_FAILED"}
        /\ (row.Succeeded = "YES") <=> (row.B2CStatus = "B2C_SUCCESS")
        /\ (row.B2CStatus = "B2C_SUCCESS") <=> (row.ResultCode = "0")
        /\ (row.Succeeded = "NO") <=> (row.B2CStatus = "B2C_FAILED")

\* C27 witness: both handlers have returned and the store holds the row of
\* a successful payment and the row of a failed one.
C27_Witness ==
  /\ Len(SQLDB) = 2
  /\ SQLDB[1].Succeeded = "YES" /\ SQLDB[1].ResultCode = "0"
  /\ SQLDB[2].Succeeded = "NO" /\ SQLDB[2].ResultCode = "2001"
  /\ \A h \in Handlers : pc[h] = "done"
====
